---- MODULE Spec2Model ----
(***************************************************************************)
(* Model of DatabaseService (database-service-single-instance.ts): the     *)
(* recursive WHERE-clause compiler buildWhereClause and the facade         *)
(* operations that splice a compiled predicate into a statement and hand   *)
(* it to query() (specification Spec); the pool singleton, query() and     *)
(* bulkCreate() step by step over a connection that may fail               *)
(* (specification SpecConn); and FileUploaderService.uploadFile with its   *)
(* validation and its content-hash cache (specifications SpecUpload and    *)
(* SpecCache).                                                             *)
(*                                                                         *)
(* SQL text is modelled as a sequence of tokens: the template strings of   *)
(* the source are kept token by token (identifier, operator, placeholder   *)
(* $n, punctuation, keyword), so the text is the source's text up to       *)
(* white space.  A parameter value is either a scalar [scalar |-> v] or an *)
(* array [array |-> <<v1, ...>>] (QueryParams | QueryParams[]).            *)
(***************************************************************************)
EXTENDS Integers, Sequences, FiniteSets, TLC

VARIABLES
    whereOptions,   \* the ConditionGroup / WhereOptions argument of the call
    op,             \* the operation that was called ("none" before the call); while
                    \* findAllWithPagination awaits a statement, its position
    start,          \* paramIndex given to a direct buildWhereClause call
    compiled,       \* [clause, values] returned by a direct buildWhereClause call
    sent,           \* the statements handed to query(), in order: [text, params]
    data,           \* the data argument of bulkUpdate (<<>> for the other calls)
    thrown,         \* the error the operation threw or rejected with, "" if none
    returned,       \* what findAllWithPagination resolved with (else NoReturn)
    pagination,     \* the arguments and locals of the findAllWithPagination in flight
    \* the connection layer: DatabasePool, DatabaseService instances, one call
    instance,       \* DatabasePool.instance: 0 while unset, else an index in pools
    pools,          \* every pg Pool constructed so far: [connectionString, ended]
    services,       \* the DatabaseService instances: [tableName, connectionString, pool]
    call,           \* the call of query() / bulkCreate() in flight or just settled
    \* FileUploaderService
    maxFileSize,        \* this.maxFileSize
    allowedFileTypes,   \* this.allowedFileTypes
    fileCache,          \* this.fileCache: the set of entries [hash, url]
    requests,           \* the commands handed to s3Client.send, in order
    uploads,            \* the calls made so far, each with its position
    asked,              \* history: the limits last asked for, by constructor or setter
    disk                \* the paths of the files that exist on the local disk

facadeVars == <<whereOptions, op, start, compiled, sent, data, thrown, returned,
                pagination>>
connVars == <<instance, pools, services, call>>
uploadVars == <<maxFileSize, allowedFileTypes, fileCache, requests, uploads, asked, disk>>
vars == <<whereOptions, op, start, compiled, sent, data, thrown, returned, pagination,
          instance, pools, services, call,
          maxFileSize, allowedFileTypes, fileCache, requests, uploads, asked, disk>>

-----------------------------------------------------------------------------
(* Bounds of the model *)

\* conditions plus nested groups below the top-level group of an input tree
MaxNodes == 3
\* largest paramIndex handed to a direct buildWhereClause call
MaxStart == 2
\* keys of the data object of bulkUpdate
MaxKeys == 2
\* DatabaseService instances constructed
MaxServices == 2
\* rows of the dataArray of bulkCreate
MaxRows == 2
\* uploadFile calls made while the limits are being set (SpecUpload)
MaxChecked == 2
\* uploadFile calls made on an uploader with the default limits (SpecCache)
MaxUploads == 3

-----------------------------------------------------------------------------
(* Input data: lines 3-28 *)

Scalar(v) == [scalar |-> v]
Arr(s) == [array |-> s]
\* Array.isArray(value)
IsArray(value) == "array" \in DOMAIN value

Fields == {"a", "b"}
Logics == {"AND", "OR"}
Scalars == {Scalar("x")}
Arrays == {Arr(<<>>), Arr(<<"x", "y">>)}

\* WhereCondition values the inputs are drawn from.  The type allows every
\* operator with every value; the inputs keep one comparison operator (all
\* eight take the same branch), IN with a scalar, an empty and a two-element
\* array, IS NULL with a scalar and IS NOT NULL with an array in the value
\* field.
WhereConditions ==
    [field : Fields, operator : {"="}, value : Scalars]
    \cup [field : Fields, operator : {"IN"}, value : Scalars \cup Arrays]
    \cup [field : Fields, operator : {"IS NULL"}, value : Scalars]
    \cup [field : Fields, operator : {"IS NOT NULL"}, value : {Arr(<<"x", "y">>)}]

\* 'field' in item
IsCondition(item) == "field" \in DOMAIN item

\* Shapes of input trees: a child is a leaf (a place for a condition) or a
\* nested group with its own children; n counts the leaves and nested groups.
LeafShape == [leaf |-> TRUE]
RECURSIVE ShapeChildren(_)
ShapeChildren(n) ==
    IF n = 0 THEN {<<>>}
    ELSE {<<LeafShape>> \o rest : rest \in ShapeChildren(n - 1)}
         \cup UNION {
              {<<[kids |-> inner]>> \o rest :
                   inner \in ShapeChildren(k), rest \in ShapeChildren(n - 1 - k)}
              : k \in 0..(n - 1)}
Shapes == UNION {ShapeChildren(n) : n \in 0..MaxNodes}

RECURSIVE NumLeaves(_)
NumLeaves(kids) ==
    IF Len(kids) = 0 THEN 0
    ELSE (IF "leaf" \in DOMAIN Head(kids) THEN 1 ELSE NumLeaves(Head(kids).kids))
         + NumLeaves(Tail(kids))
RECURSIVE NumGroups(_)
NumGroups(kids) ==
    IF Len(kids) = 0 THEN 0
    ELSE (IF "leaf" \in DOMAIN Head(kids) THEN 0 ELSE 1 + NumGroups(Head(kids).kids))
         + NumGroups(Tail(kids))

\* The children of a group of the given shape, its leaves taken from conds and
\* the logic of its nested groups from logics, both in depth-first order.
RECURSIVE FillChildren(_, _, _)
FillChildren(kids, conds, logics) ==
    IF Len(kids) = 0 THEN [items |-> <<>>, conds |-> conds, logics |-> logics]
    ELSE IF "leaf" \in DOMAIN Head(kids)
    THEN LET r == FillChildren(Tail(kids), Tail(conds), logics)
         IN  [items |-> <<Head(conds)>> \o r.items, conds |-> r.conds, logics |-> r.logics]
    ELSE LET inner == FillChildren(Head(kids).kids, conds, Tail(logics))
             r == FillChildren(Tail(kids), inner.conds, inner.logics)
         IN  [items |-> <<[logic |-> Head(logics), conditions |-> inner.items]>> \o r.items,
              conds |-> r.conds, logics |-> r.logics]

\* ConditionGroup (lines 25-28)
Group(shape, conds, logics) ==
    [logic |-> Head(logics), conditions |-> FillChildren(shape, conds, Tail(logics)).items]

\* WhereOptions: a group whose children are all plain conditions
IsFlat(group) == \A i \in 1..Len(group.conditions) : IsCondition(group.conditions[i])

\* Record<string, QueryParams> in Object.keys order, as a sequence of entries
Entry(k, v) == [key |-> k, value |-> v]
RECURSIVE Records(_)
Records(n) ==
    IF n = 0 THEN {<<>>}
    ELSE {Append(r, Entry(k, v)) : r \in Records(n - 1),
                                     k \in {"c", "d"}, v \in {Scalar("p")}}
DataInputs == {r \in UNION {Records(n) : n \in 0..MaxKeys} :
                 \A i, j \in 1..Len(r) : i # j => r[i].key # r[j].key}
LegacyConditions == {<<>>, <<Entry("c", Scalar("p"))>>}
SortInputs == {<<>>, <<[field |-> "a", order |-> "DESC"]>>}
\* PaginationOptions (lines 9-12) and the answers of COUNT(*)
PaginationInputs == {[page |-> 1, limit |-> 2], [page |-> 2, limit |-> 2],
                     [page |-> 2, limit |-> 1]}
CountAnswers == {0, 3}

TableName == "t"

-----------------------------------------------------------------------------
(* SQL text as tokens *)

Tok(kind, text, n) == [kind |-> kind, text |-> text, n |-> n]
Ident(name) == Tok("ident", name, 0)
Oper(o) == Tok("op", o, 0)
\* `$${paramIndex}`
Ph(n) == Tok("ph", "$", n)
Sym(s) == Tok("sym", s, 0)
Kw(k) == Tok("kw", k, 0)
Num(n) == Tok("num", "", n)

\* Array.prototype.join
RECURSIVE Join(_, _)
Join(parts, sep) ==
    IF Len(parts) = 0 THEN <<>>
    ELSE IF Len(parts) = 1 THEN parts[1]
    ELSE parts[1] \o sep \o Join(Tail(parts), sep)

\* value.map(() => `$${paramIndex++}`).join(', ')
RECURSIVE Placeholders(_, _)
Placeholders(k, paramIndex) ==
    IF k = 0 THEN <<>>
    ELSE IF k = 1 THEN <<Ph(paramIndex)>>
    ELSE <<Ph(paramIndex), Sym(",")>> \o Placeholders(k - 1, paramIndex + 1)

\* k copies of v pushed on values
RECURSIVE PushTimes(_, _, _)
PushTimes(values, v, k) ==
    IF k = 0 THEN values ELSE PushTimes(Append(values, v), v, k - 1)

\* every element of arr pushed on values, in order
RECURSIVE PushEach(_, _)
PushEach(values, arr) ==
    IF Len(arr) = 0 THEN values
    ELSE PushEach(Append(values, Scalar(Head(arr))), Tail(arr))

-----------------------------------------------------------------------------
(* buildWhereClause: lines 201-232 *)

\* ConditionClause with the IN branch pushing the list once, as one parameter
ConditionClause_PushOnce(condition, values, paramIndex) ==
    IF condition.operator = "IS NULL" \/ condition.operator = "IS NOT NULL"
    THEN [clause |-> <<Ident(condition.field), Oper(condition.operator)>>,
          values |-> values,
          paramIndex |-> paramIndex]
    ELSE IF condition.operator = "IN" /\ IsArray(condition.value)
    THEN LET k == Len(condition.value.array)
         IN  [clause |-> <<Ident(condition.field), Oper("IN"), Sym("(")>>
                         \o Placeholders(k, paramIndex) \o <<Sym(")")>>,
              values |-> Append(values, condition.value),
              paramIndex |-> paramIndex + k]
    ELSE [clause |-> <<Ident(condition.field), Oper(condition.operator), Ph(paramIndex)>>,
          values |-> Append(values, condition.value),
          paramIndex |-> paramIndex + 1]

\* ConditionClause with the IS NULL branch taking a placeholder index
ConditionClause_NullAdvances(condition, values, paramIndex) ==
    IF condition.operator = "IS NULL" \/ condition.operator = "IS NOT NULL"
    THEN [clause |-> <<Ident(condition.field), Oper(condition.operator)>>,
          values |-> values,
          paramIndex |-> paramIndex + 1]
    ELSE IF condition.operator = "IN" /\ IsArray(condition.value)
    THEN LET k == Len(condition.value.array)
         IN  [clause |-> <<Ident(condition.field), Oper("IN"), Sym("(")>>
                         \o Placeholders(k, paramIndex) \o <<Sym(")")>>,
              values |-> PushTimes(values, condition.value, k),
              paramIndex |-> paramIndex + k]
    ELSE [clause |-> <<Ident(condition.field), Oper(condition.operator), Ph(paramIndex)>>,
          values |-> Append(values, condition.value),
          paramIndex |-> paramIndex + 1]

\* ConditionClause with the value of a comparison written into the text
ConditionClause_Inline(condition, values, paramIndex) ==
    IF condition.operator = "IS NULL" \/ condition.operator = "IS NOT NULL"
    THEN [clause |-> <<Ident(condition.field), Oper(condition.operator)>>,
          values |-> values,
          paramIndex |-> paramIndex]
    ELSE IF condition.operator = "IN" /\ IsArray(condition.value)
    THEN LET k == Len(condition.value.array)
         IN  [clause |-> <<Ident(condition.field), Oper("IN"), Sym("(")>>
                         \o Placeholders(k, paramIndex) \o <<Sym(")")>>,
              values |-> PushTimes(values, condition.value, k),
              paramIndex |-> paramIndex + k]
    ELSE [clause |-> <<Ident(condition.field), Oper(condition.operator),
                       Tok("literal", condition.value.scalar, 0)>>,
          values |-> values,
          paramIndex |-> paramIndex]

\* The branch for one plain condition (lines 211-223): the clause pushed on
\* clauses, the values array after the pushes, and the local paramIndex.
ConditionClause(condition, values, paramIndex) ==
    IF condition.operator = "IS NULL" \/ condition.operator = "IS NOT NULL"
    THEN [clause |-> <<Ident(condition.field), Oper(condition.operator)>>,
          values |-> values,
          paramIndex |-> paramIndex]
    ELSE IF condition.operator = "IN" /\ IsArray(condition.value)
    THEN LET k == Len(condition.value.array)
         IN  [clause |-> <<Ident(condition.field), Oper("IN"), Sym("(")>>
                         \o Placeholders(k, paramIndex) \o <<Sym(")")>>,
              \* values.push(condition.value): the whole array, once per element
              values |-> PushTimes(values, condition.value, k),
              paramIndex |-> paramIndex + k]
    ELSE [clause |-> <<Ident(condition.field), Oper(condition.operator), Ph(paramIndex)>>,
          values |-> Append(values, condition.value),
          paramIndex |-> paramIndex + 1]

\* NestedClause without the parentheses
NestedClause_Bare(text) == text

\* `(${...})` of line 227
NestedClause(text) == <<Sym("(")>> \o text \o <<Sym(")")>>

RECURSIVE buildWhereClause(_, _, _)
RECURSIVE BuildLoop(_, _, _, _, _)

\* The for loop of lines 208-229 from item i on.  values is the one array all
\* calls share; paramIndex is a local of this call, so what a nested call
\* adds to its own copy is lost when it returns (line 227).
BuildLoop(group, i, clauses, values, paramIndex) ==
    IF i > Len(group.conditions)
    THEN [clause |-> Join(clauses, <<Kw(group.logic)>>), values |-> values]
    ELSE LET item == group.conditions[i] IN
         IF IsCondition(item)
         THEN LET c == ConditionClause(item, values, paramIndex)
              IN  BuildLoop(group, i + 1, Append(clauses, c.clause),
                            c.values, c.paramIndex)
         ELSE LET nested == buildWhereClause(item, values, paramIndex)
              IN  BuildLoop(group, i + 1,
                            Append(clauses, NestedClause(nested.clause)),
                            nested.values, paramIndex)

\* buildWhereClause with an empty group compiled to an always-true clause
buildWhereClause_EmptyTrue(group, values, paramIndex) ==
    IF Len(group.conditions) = 0
    THEN [clause |-> <<Kw("TRUE")>>, values |-> values]
    ELSE BuildLoop(group, 1, <<>>, values, paramIndex)

buildWhereClause(group, values, paramIndex) ==
    BuildLoop(group, 1, <<>>, values, paramIndex)

-----------------------------------------------------------------------------
(* The flat builders of findAllWithPagination (256-269), bulkUpdate        *)
(* (326-339) and bulkDelete (357-370): three copies of the same map.       *)

FlatConditionClause(condition, values, paramIndex) ==
    IF condition.operator = "IS NULL" \/ condition.operator = "IS NOT NULL"
    THEN [clause |-> <<Ident(condition.field), Oper(condition.operator)>>,
          values |-> values,
          paramIndex |-> paramIndex]
    ELSE IF condition.operator = "IN" /\ IsArray(condition.value)
    THEN LET k == Len(condition.value.array)
         IN  [clause |-> <<Ident(condition.field), Oper("IN"), Sym("(")>>
                         \o Placeholders(k, paramIndex) \o <<Sym(")")>>,
              \* values.push(val) for each val
              values |-> PushEach(values, condition.value.array),
              paramIndex |-> paramIndex + k]
    ELSE [clause |-> <<Ident(condition.field), Oper(condition.operator), Ph(paramIndex)>>,
          values |-> Append(values, condition.value),
          paramIndex |-> paramIndex + 1]

\* whereOptions.conditions.map(...) from condition i on, then
\* whereClauses.join(` ${whereOptions.logic} `)
RECURSIVE FlatLoop(_, _, _, _, _)
FlatLoop(options, i, clauses, values, paramIndex) ==
    IF i > Len(options.conditions)
    THEN [clause |-> Join(clauses, <<Kw(options.logic)>>), values |-> values,
          paramIndex |-> paramIndex]
    ELSE LET c == FlatConditionClause(options.conditions[i], values, paramIndex)
         IN  FlatLoop(options, i + 1, Append(clauses, c.clause), c.values, c.paramIndex)

FlatWhere(options, values, paramIndex) == FlatLoop(options, 1, <<>>, values, paramIndex)

\* Object.keys(conditions).map(key => { values.push(..); `${key} = $${paramIndex++}` })
\* joined with ' AND ' (lines 182-186, 274-278)
RECURSIVE LegacyLoop(_, _, _, _, _)
LegacyLoop(conditions, i, clauses, values, paramIndex) ==
    IF i > Len(conditions)
    THEN [clause |-> Join(clauses, <<Kw("AND")>>), values |-> values]
    ELSE LegacyLoop(conditions, i + 1,
                    Append(clauses, <<Ident(conditions[i].key), Oper("="), Ph(paramIndex)>>),
                    Append(values, conditions[i].value), paramIndex + 1)

\* Object.keys(data).map((key, index) => `${key} = $${index + 1}`).join(', ')
SetClauses(d) ==
    Join([i \in 1..Len(d) |-> <<Ident(d[i].key), Oper("="), Ph(i)>>], <<Sym(",")>>)

\* Object.values(data)
ObjectValues(d) == [i \in 1..Len(d) |-> d[i].value]

\* Object.entries(sortOptions).map(([field, order]) => `${field} ${order}`).join(', ')
SortClauses(sortOptions) ==
    Join([i \in 1..Len(sortOptions) |->
              <<Ident(sortOptions[i].field), Kw(sortOptions[i].order)>>], <<Sym(",")>>)

-----------------------------------------------------------------------------
(* Statements *)

Statement(text, params) == [text |-> text, params |-> params]

\* findAllCustom, lines 172-197: the statement it hands to query()
FindAllCustomStatement(conditions, sortOptions, options) ==
    LET select == <<Kw("SELECT * FROM"), Ident(TableName)>>
        where ==
            IF Len(options.conditions) > 0
            THEN LET w == buildWhereClause(options, <<>>, 1)
                 IN  [text |-> <<Kw("WHERE")>> \o w.clause, values |-> w.values]
            ELSE IF Len(conditions) > 0
            THEN LET w == LegacyLoop(conditions, 1, <<>>, <<>>, 1)
                 IN  [text |-> <<Kw("WHERE")>> \o w.clause, values |-> w.values]
            ELSE [text |-> <<>>, values |-> <<>>]
        order ==
            IF Len(sortOptions) > 0
            THEN <<Kw("ORDER BY")>> \o SortClauses(sortOptions)
            ELSE <<>>
    IN  Statement(select \o where.text \o order, where.values)

\* findAllWithPagination, lines 250-281: the count statement
CountStatement(conditions, options) ==
    LET select == <<Kw("SELECT COUNT(*) FROM"), Ident(TableName)>>
        where ==
            IF Len(options.conditions) > 0
            THEN LET w == FlatWhere(options, <<>>, 1)
                 IN  [text |-> <<Kw("WHERE")>> \o w.clause, values |-> w.values]
            ELSE IF Len(conditions) > 0
            THEN LET w == LegacyLoop(conditions, 1, <<>>, <<>>, 1)
                 IN  [text |-> <<Kw("WHERE")>> \o w.clause, values |-> w.values]
            ELSE [text |-> <<>>, values |-> <<>>]
    IN  Statement(select \o where.text, where.values)

\* BulkUpdateStatement with the WHERE placeholders numbered from 1
BulkUpdateStatement_FromOne(options, d) ==
    LET w == FlatWhere(options, ObjectValues(d), 1)
    IN  Statement(<<Kw("UPDATE"), Ident(TableName), Kw("SET")>> \o SetClauses(d)
                  \o <<Kw("WHERE")>> \o w.clause \o <<Kw("RETURNING *")>>,
                  w.values)

\* bulkUpdate, lines 321-341
BulkUpdateStatement(options, d) ==
    LET w == FlatWhere(options, ObjectValues(d), Len(d) + 1)
    IN  Statement(<<Kw("UPDATE"), Ident(TableName), Kw("SET")>> \o SetClauses(d)
                  \o <<Kw("WHERE")>> \o w.clause \o <<Kw("RETURNING *")>>,
                  w.values)

\* BulkDeleteStatement without the RETURNING * tail
BulkDeleteStatement_NoReturning(options) ==
    LET w == FlatWhere(options, <<>>, 1)
    IN  Statement(<<Kw("DELETE FROM"), Ident(TableName), Kw("WHERE")>> \o w.clause,
                  w.values)

\* bulkDelete, lines 353-372
BulkDeleteStatement(options) ==
    LET w == FlatWhere(options, <<>>, 1)
    IN  Statement(<<Kw("DELETE FROM"), Ident(TableName), Kw("WHERE")>> \o w.clause
                  \o <<Kw("RETURNING *")>>,
                  w.values)

-----------------------------------------------------------------------------
(* State machine: one call of one operation on a fresh input *)

\* the errors pool.connect() and client.query() may reject with
Errors == {"E1", "E2"}

\* what the connection answers an await with
Ok == [ok |-> TRUE, error |-> ""]
Failed(e) == [ok |-> FALSE, error |-> e]
Answers == {Ok} \cup {Failed(e) : e \in Errors}

NoCompiled == [clause |-> <<>>, values |-> <<>>]
NoReturn == [command |-> <<>>, rows |-> 0, page |-> 0, limit |-> 0, totalItems |-> 0,
             totalPages |-> 0]

\* no findAllWithPagination is in flight
NoPagination ==
    [conditions |-> <<>>, sortOptions |-> <<>>, page |-> 0, limit |-> 0, totalItems |-> 0]

\* a promise: pending, resolved, or rejected with an error
Pending == [state |-> "pending", error |-> ""]
Resolved == [state |-> "resolved", error |-> ""]
Rejected(e) == [state |-> "rejected", error |-> e]

\* no call of query() / bulkCreate() has been made
NoCall ==
    [service |-> 0, op |-> "none", rows |-> 0, pc |-> "idle", log |-> <<>>,
     acquired |-> 0, released |-> 0, connectFailed |-> FALSE, raised |-> <<>>,
     error |-> "", outcome |-> Pending]

\* the connection layer before any DatabaseService is constructed
NoConnection ==
    /\ instance = 0
    /\ pools = <<>>
    /\ services = <<>>
    /\ call = NoCall

\* private maxFileSize: number = 5 * 1024 * 1024 (line 795)
DefaultMaxFileSize == 5242880

\* An optional argument: <<>> when it is not given, <<v>> when it is v
None == <<>>
Some(v) == <<v>>

\* Files of the local file system: directory, stem, extension and content;
\* one that exists when the uploader is constructed and one that does not
LocalFile(dir, stem, ext, content) ==
    [dir |-> dir, stem |-> stem, ext |-> ext, content |-> content]
OnDisk == LocalFile("/tmp", "a", "png", "c1")
NotOnDisk == LocalFile("/tmp", "gone", "txt", "")
\* the full path of a local file
PathOf(f) == f.dir \o "/" \o f.stem \o "." \o f.ext

\* nobody asked for a limit
NothingAsked == [maxFileSize |-> None, allowedFileTypes |-> None]

\* a FileUploaderService constructed without config, before any call
NoUploader ==
    /\ maxFileSize = DefaultMaxFileSize
    /\ allowedFileTypes = <<>>
    /\ fileCache = {}
    /\ requests = <<>>
    /\ uploads = <<>>
    /\ asked = NothingAsked
    /\ disk = {PathOf(OnDisk)}

\* no facade operation is called
NoFacade ==
    /\ whereOptions = [logic |-> "AND", conditions |-> <<>>]
    /\ op = "none"
    /\ start = 0
    /\ compiled = NoCompiled
    /\ sent = <<>>
    /\ data = <<>>
    /\ thrown = ""
    /\ returned = NoReturn
    /\ pagination = NoPagination

Init ==
    /\ \E shape \in Shapes :
          \E conds \in [1..NumLeaves(shape) -> WhereConditions],
             logics \in [1..(NumGroups(shape) + 1) -> Logics] :
             whereOptions = Group(shape, conds, logics)
    /\ op = "none"
    /\ start = 0
    /\ compiled = NoCompiled
    /\ sent = <<>>
    /\ data = <<>>
    /\ thrown = ""
    /\ returned = NoReturn
    /\ pagination = NoPagination
    /\ NoConnection
    /\ NoUploader

\* The values array of a statement that already holds n parameters
Prefix(n) == [i \in 1..n |-> Scalar("p")]

\* A direct call buildWhereClause(whereOptions, values, paramIndex) inside a
\* statement whose first paramIndex - 1 parameters are already in values.
BuildWhereClause ==
    /\ op = "none"
    /\ \E paramIndex \in 1..MaxStart :
          /\ start' = paramIndex
          /\ compiled' = buildWhereClause(whereOptions, Prefix(paramIndex - 1), paramIndex)
    /\ op' = "buildWhereClause"
    /\ UNCHANGED <<whereOptions, sent, data, thrown, returned, pagination, connVars,
                   uploadVars>>

FindAllCustom ==
    /\ op = "none"
    /\ \E conditions \in LegacyConditions, sortOptions \in SortInputs :
          sent' = Append(sent, FindAllCustomStatement(conditions, sortOptions, whereOptions))
    /\ op' = "findAllCustom"
    /\ UNCHANGED <<whereOptions, start, compiled, data, thrown, returned, pagination, connVars,
                   uploadVars>>

\* The number of rows the database answers a SELECT with when `matching`
\* rows satisfy its predicate: all of them, or the window that a LIMIT n
\* OFFSET m at the end of the text cuts out.
RowsAnswered(text, matching) ==
    LET n == Len(text) IN
    IF n >= 4 /\ text[n - 3] = Kw("LIMIT") /\ text[n - 1] = Kw("OFFSET")
    THEN LET left == IF matching > text[n].n THEN matching - text[n].n ELSE 0
         IN  IF left < text[n - 2].n THEN left ELSE text[n - 2].n
    ELSE matching

\* Math.ceil(totalItems / limit)
Ceil(a, b) == (a + b - 1) \div b

\* numbers of rows that may satisfy the predicate when the data statement runs
\* (a later answer of the database than the count)
MatchingRows == {0, 1, 3}

\* findAllWithPagination, lines 235-281: the call builds the count statement
\* from the arguments as they are now and awaits query(countSql, values).
FindAllWithPagination ==
    /\ op = "none"
    /\ IsFlat(whereOptions)
    /\ \E conditions \in LegacyConditions, sortOptions \in SortInputs,
          paginationOptions \in PaginationInputs :
          /\ sent' = Append(sent, CountStatement(conditions, whereOptions))
          /\ pagination' = [conditions |-> conditions, sortOptions |-> sortOptions,
                            page |-> paginationOptions.page,
                            limit |-> paginationOptions.limit, totalItems |-> 0]
    /\ op' = "findAllWithPagination:count"
    /\ UNCHANGED <<whereOptions, start, compiled, data, thrown, returned, connVars,
                   uploadVars>>

\* While the count statement is awaited the caller still holds the
\* whereOptions object and may change it; here, its logic.
CallerChangesLogic ==
    /\ op = "findAllWithPagination:count"
    /\ whereOptions' = [whereOptions EXCEPT !.logic = IF @ = "AND" THEN "OR" ELSE "AND"]
    /\ UNCHANGED <<op, start, compiled, sent, data, thrown, returned, pagination,
                   connVars, uploadVars>>

\* While the count statement is awaited another call on the service may run:
\* here a findAllCustom with the same whereOptions, whose statement reaches
\* the connection between the two statements of findAllWithPagination.  Its
\* result goes to its own caller.
FindAllCustomMeanwhile ==
    /\ op = "findAllWithPagination:count"
    /\ Len(sent) = 1
    /\ sent' = Append(sent, FindAllCustomStatement(<<>>, <<>>, whereOptions))
    /\ UNCHANGED <<whereOptions, op, start, compiled, data, thrown, returned, pagination,
                   connVars, uploadVars>>

\* lines 281-289, once query(countSql) has settled.  A rejection (of
\* pool.connect() or of the statement) rejects the call.  Otherwise totalItems
\* is read from the answer and findAllCustom is called: it builds the data
\* statement from whereOptions as they are now and awaits query().
CountAnswered ==
    /\ op = "findAllWithPagination:count"
    /\ \/ \E e \in Errors :
             /\ thrown' = e
             /\ op' = "findAllWithPagination"
             /\ UNCHANGED <<sent, pagination>>
       \/ \E totalItems \in CountAnswers :
             /\ pagination' = [pagination EXCEPT !.totalItems = totalItems]
             /\ sent' = Append(sent, FindAllCustomStatement(pagination.conditions,
                                                            pagination.sortOptions,
                                                            whereOptions))
             /\ op' = "findAllWithPagination:data"
             /\ thrown' = thrown
    /\ UNCHANGED <<whereOptions, start, compiled, data, returned, connVars, uploadVars>>

\* lines 289-300, once findAllCustom has settled.  A rejection rejects the
\* call.  Otherwise LIMIT and OFFSET are appended to the command field of the
\* result (pg reports the statement's verb there), after the statement has
\* run, and the result is returned as data next to the pagination numbers.
DataAnswered ==
    /\ op = "findAllWithPagination:data"
    /\ \/ \E e \in Errors :
             /\ thrown' = e
             /\ returned' = returned
       \/ \E matching \in MatchingRows :
             /\ returned' =
                   [command |-> <<Kw("SELECT"), Kw("LIMIT"), Num(pagination.limit),
                                  Kw("OFFSET"),
                                  Num((pagination.page - 1) * pagination.limit)>>,
                    \* data: dataSql, the result of the statement that ran; its rows
                    rows |-> RowsAnswered(sent[Len(sent)].text, matching),
                    page |-> pagination.page,
                    limit |-> pagination.limit,
                    totalItems |-> pagination.totalItems,
                    totalPages |-> Ceil(pagination.totalItems, pagination.limit)]
             /\ thrown' = thrown
    /\ op' = "findAllWithPagination"
    /\ UNCHANGED <<whereOptions, start, compiled, sent, data, pagination, connVars,
                   uploadVars>>

BulkUpdate ==
    /\ op = "none"
    /\ IsFlat(whereOptions)
    /\ \E d \in DataInputs :
          /\ data' = d
          /\ IF Len(d) = 0
             THEN /\ thrown' = "No data provided for bulk update operation"
                  /\ sent' = sent
             ELSE /\ sent' = Append(sent, BulkUpdateStatement(whereOptions, d))
                  /\ thrown' = thrown
    /\ op' = "bulkUpdate"
    /\ UNCHANGED <<whereOptions, start, compiled, returned, pagination, connVars,
                   uploadVars>>

BulkDelete ==
    /\ op = "none"
    /\ IsFlat(whereOptions)
    /\ sent' = Append(sent, BulkDeleteStatement(whereOptions))
    /\ op' = "bulkDelete"
    /\ UNCHANGED <<whereOptions, start, compiled, data, thrown, returned, pagination, connVars,
                   uploadVars>>

Next ==
    \/ BuildWhereClause
    \/ FindAllCustom
    \/ FindAllWithPagination
    \/ CallerChangesLogic
    \/ FindAllCustomMeanwhile
    \/ CountAnswered
    \/ DataAnswered
    \/ BulkUpdate
    \/ BulkDelete

Spec == Init /\ [][Next]_vars

\* the recursive compiler alone: called directly, and through findAllCustom
NextCompile ==
    \/ BuildWhereClause
    \/ FindAllCustom

SpecCompile == Init /\ [][NextCompile]_vars

\* the compiler and the operations that send one statement built around a
\* predicate
NextStatements ==
    \/ BuildWhereClause
    \/ FindAllCustom
    \/ BulkUpdate
    \/ BulkDelete

SpecStatements == Init /\ [][NextStatements]_vars

-----------------------------------------------------------------------------
(* The connection layer: DatabasePool (30-64), the DatabaseService         *)
(* constructor (70-73), query (76-91), bulkCreate (104-142), closePool     *)
(* (382-384).  A call runs step by step: each await is a position (pc) at  *)
(* which the pool or the client answers, with success or with an error.    *)

TableNames == {"users", "orders"}
\* the connectionString argument; "" stands for undefined
ConnectionStrings == {"", "pgA", "pgB"}
\* process.env.POSTGRES_CONNECTION_STRING
EnvConnectionString == "env"

\* the operations that hand one statement to query() and return its promise
\* (create 94, findById 145, findAll 151, findAllCustom 167, update 304,
\* bulkUpdate 313, delete 346, bulkDelete 352, executeQuery 377), each with
\* the verb of its statement
QueryOps ==
    {"create", "findById", "findAll", "findAllCustom", "update", "bulkUpdate",
     "delete", "bulkDelete", "executeQuery"}
VerbOf(o) ==
    IF o = "create" THEN "INSERT"
    ELSE IF o \in {"findById", "findAll", "findAllCustom"} THEN "SELECT"
    ELSE IF o \in {"update", "bulkUpdate"} THEN "UPDATE"
    ELSE IF o \in {"delete", "bulkDelete"} THEN "DELETE"
    ELSE "CUSTOM"

\* a statement issued on a client; rows is the number of rows of a multi-row
\* INSERT of bulkCreate, 0 otherwise
Issued(verb, rows) == [verb |-> verb, rows |-> rows]

\* new Pool({connectionString: connectionString || process.env...}) (35-38)
NewPool(connectionString) ==
    [connectionString |-> IF connectionString = "" THEN EnvConnectionString
                          ELSE connectionString,
     ended |-> FALSE]

\* getInstance building a pool of its own for every connection string given
GetInstance_PerString(inst, ps, connectionString) ==
    IF inst = 0 \/ (connectionString # ""
                    /\ ps[inst].connectionString # connectionString)
    THEN [instance |-> Len(ps) + 1, pools |-> Append(ps, NewPool(connectionString))]
    ELSE [instance |-> inst, pools |-> ps]

\* DatabasePool.getInstance (50-55): the static instance and the pools after
\* the call
GetInstance(inst, ps, connectionString) ==
    IF inst = 0
    THEN [instance |-> Len(ps) + 1, pools |-> Append(ps, NewPool(connectionString))]
    ELSE [instance |-> inst, pools |-> ps]

\* new DatabaseService(tableName, connectionString) (70-73)
NewService ==
    /\ Len(services) < MaxServices
    /\ \E tableName \in TableNames, connectionString \in ConnectionStrings :
          LET got == GetInstance(instance, pools, connectionString) IN
          /\ instance' = got.instance
          /\ pools' = got.pools
          /\ services' = Append(services,
                                [tableName |-> tableName,
                                 connectionString |-> connectionString,
                                 pool |-> got.instance])
    /\ UNCHANGED <<call, facadeVars, uploadVars>>

\* DatabaseService.closePool() (382-384): getInstance().close(), pool.end()
ClosePool ==
    /\ LET got == GetInstance(instance, pools, "") IN
       /\ ~got.pools[got.instance].ended
       /\ instance' = got.instance
       /\ pools' = [got.pools EXCEPT ![got.instance].ended = TRUE]
    /\ UNCHANGED <<services, call, facadeVars, uploadVars>>

\* query without the rethrow: the catch block logs the error and falls through
AfterQuery_Swallow(answer) == [released |-> 1, outcome |-> Resolved]

\* query releasing the client at the end of the try block, not in a finally
AfterQuery_NoFinally(answer) ==
    [released |-> IF answer.ok THEN 1 ELSE 0,
     outcome |-> IF answer.ok THEN Resolved ELSE Rejected(answer.error)]

\* query, lines 82-90, once client.query(text, params) has answered: return
\* the result, or catch and rethrow the error; finally client.release()
AfterQuery(answer) ==
    [released |-> 1,
     outcome |-> IF answer.ok THEN Resolved ELSE Rejected(answer.error)]

\* bulkCreate, lines 110-141, once the statement awaited at pc ("BEGIN",
\* "INSERT" or "COMMIT") has answered: the next statement of the try block,
\* or return result and finally release; on an error the catch block, which
\* keeps the error and issues ROLLBACK
AfterStatement(pc, rows, answer) ==
    IF ~answer.ok
    THEN [issue |-> <<Issued("ROLLBACK", 0)>>, pc |-> "ROLLBACK",
          error |-> answer.error, released |-> 0, outcome |-> Pending]
    ELSE IF pc = "BEGIN"
    THEN [issue |-> <<Issued("INSERT", rows)>>, pc |-> "INSERT",
          error |-> "", released |-> 0, outcome |-> Pending]
    ELSE IF pc = "INSERT"
    THEN [issue |-> <<Issued("COMMIT", 0)>>, pc |-> "COMMIT",
          error |-> "", released |-> 0, outcome |-> Pending]
    ELSE [issue |-> <<>>, pc |-> "settled",
          error |-> "", released |-> 1, outcome |-> Resolved]

\* bulkCreate, lines 135-141, once `await client.query('ROLLBACK')` has
\* answered: throw the error caught; if ROLLBACK itself rejected, that
\* rejection leaves the catch block instead; finally client.release()
AfterRollback(error, answer) ==
    [released |-> 1,
     outcome |-> IF answer.ok THEN Rejected(error) ELSE Rejected(answer.error)]

\* one of the QueryOps is called on a service: query() awaits pool.connect()
CallQuery ==
    /\ call.pc \in {"idle", "settled"}
    /\ \E s \in 1..Len(services), o \in QueryOps :
          call' = [NoCall EXCEPT !.service = s, !.op = o, !.pc = "connect"]
    /\ UNCHANGED <<instance, pools, services, facadeVars, uploadVars>>

\* bulkCreate(dataArray), lines 104-109: throws on an empty array, else
\* awaits pool.connect()
CallBulkCreate ==
    /\ call.pc \in {"idle", "settled"}
    /\ \E s \in 1..Len(services), n \in 0..MaxRows :
          call' = IF n = 0
                  THEN [NoCall EXCEPT
                           !.service = s, !.op = "bulkCreate", !.pc = "settled",
                           !.outcome =
                               Rejected("No data provided for bulk create operation")]
                  ELSE [NoCall EXCEPT !.service = s, !.op = "bulkCreate",
                                      !.rows = n, !.pc = "connect"]
    /\ UNCHANGED <<instance, pools, services, facadeVars, uploadVars>>

\* pool.connect() resolves with a client; the call issues its first statement
Connected ==
    /\ call.pc = "connect"
    /\ ~pools[services[call.service].pool].ended
    /\ call' = IF call.op = "bulkCreate"
               THEN [call EXCEPT !.acquired = 1, !.pc = "BEGIN",
                                 !.log = <<Issued("BEGIN", 0)>>]
               ELSE [call EXCEPT !.acquired = 1, !.pc = "query",
                                 !.log = <<Issued(VerbOf(call.op), 0)>>]
    /\ UNCHANGED <<instance, pools, services, facadeVars, uploadVars>>

\* pool.connect() rejects (always so once the pool has ended): the await is
\* outside the try block, the call rejects with the error
ConnectFails ==
    /\ call.pc = "connect"
    /\ \E e \in Errors :
          call' = [call EXCEPT !.connectFailed = TRUE, !.pc = "settled",
                               !.outcome = Rejected(e)]
    /\ UNCHANGED <<instance, pools, services, facadeVars, uploadVars>>

\* client.query(text, params) of query() answers
QueryAnswered ==
    /\ call.pc = "query"
    /\ \E answer \in Answers :
          LET a == AfterQuery(answer) IN
          call' = [call EXCEPT
                      !.raised = IF answer.ok THEN @ ELSE Append(@, answer.error),
                      !.released = @ + a.released,
                      !.outcome = a.outcome,
                      !.pc = "settled"]
    /\ UNCHANGED <<instance, pools, services, facadeVars, uploadVars>>

\* BEGIN, the INSERT or COMMIT of bulkCreate answers
StatementAnswered ==
    /\ call.pc \in {"BEGIN", "INSERT", "COMMIT"}
    /\ \E answer \in Answers :
          LET a == AfterStatement(call.pc, call.rows, answer) IN
          call' = [call EXCEPT
                      !.raised = IF answer.ok THEN @ ELSE Append(@, answer.error),
                      !.log = @ \o a.issue,
                      !.error = a.error,
                      !.released = @ + a.released,
                      !.outcome = a.outcome,
                      !.pc = a.pc]
    /\ UNCHANGED <<instance, pools, services, facadeVars, uploadVars>>

\* the ROLLBACK of bulkCreate answers
RollbackAnswered ==
    /\ call.pc = "ROLLBACK"
    /\ \E answer \in Answers :
          LET a == AfterRollback(call.error, answer) IN
          call' = [call EXCEPT
                      !.raised = IF answer.ok THEN @ ELSE Append(@, answer.error),
                      !.released = @ + a.released,
                      !.outcome = a.outcome,
                      !.pc = "settled"]
    /\ UNCHANGED <<instance, pools, services, facadeVars, uploadVars>>

InitConn ==
    /\ NoFacade
    /\ NoConnection
    /\ NoUploader

NextConn ==
    \/ NewService
    \/ ClosePool
    \/ CallQuery
    \/ CallBulkCreate
    \/ Connected
    \/ ConnectFails
    \/ QueryAnswered
    \/ StatementAnswered
    \/ RollbackAnswered

SpecConn == InitConn /\ [][NextConn]_vars

-----------------------------------------------------------------------------
(* FileUploaderService: constructor (798-822), calculateFileHash (827-832), *)
(* uploadFile (854-895), uploadLocalFile (901-928), uploadFileBuffer        *)
(* (940-956), uploadBatch (963-979), deleteObject, deleteObjects and        *)
(* listObjects (1008-1041), uploadToStorage (1052-1074), setMaxFileSize and *)
(* setAllowedFileTypes (1091-1107).  Calls interleave at their awaits.      *)
(* getPresignedUploadUrl / getPresignedDownloadUrl sign a URL locally:      *)
(* they send nothing and read or write no field, and have no action.        *)

\* Files: name as stem and extension ("a.png"), MIME type, size in bytes and
\* content.  Two files of one content have one size.
File(stem, ext, type, size, content) ==
    [stem |-> stem, ext |-> ext, type |-> type, size |-> size, content |-> content]
Files ==
    {File("a", "png", "image/png", 1, "c1"),
     File("n", "txt", "text/plain", 2, "c2"),
     File("big", "png", "image/png", DefaultMaxFileSize + 1, "c3")}

\* UploadFileParams (746-752); "" stands for a key part that is not given
UploadParams ==
    [file : Files, bucketName : {"", "bkt"}, keyPrefix : {"", "img"},
     keyName : {""}, keySuffix : {""}]
    \cup [file : {File("a", "png", "image/png", 1, "c1")}, bucketName : {"bkt2"},
          keyPrefix : {""}, keyName : {"k"}, keySuffix : {"jpg"}]
    \* a File constructed without a type has type ''
    \cup [file : {File("raw", "bin", "", 1, "c1")}, bucketName : {"bkt"},
          keyPrefix : {""}, keyName : {""}, keySuffix : {""}]

\* UploadLocalFileParams (754-761)
UploadLocalParams ==
    [filePath : {OnDisk, NotOnDisk}, bucketName : {"bkt"}, keyPrefix : {""},
     keyName : {""}, keySuffix : {""}, removeAfterUpload : BOOLEAN]
    \cup [filePath : {OnDisk}, bucketName : {""}, keyPrefix : {"loc"},
          keyName : {"k"}, keySuffix : {"jpg"}, removeAfterUpload : {FALSE}]

\* UploadBatchParams (763-770)
UploadBatchParams ==
    [filePaths : {<<>>, <<OnDisk>>, <<OnDisk, NotOnDisk>>}, bucketName : {"bkt"},
     keyPrefix : {""}, keyName : {""}, keySuffix : {""}, removeAfterUpload : {FALSE}]

\* the params of uploadFileBuffer (940-945)
UploadFileBufferParams ==
    {[bucketName |-> "", storagekey |-> "x/y.png", fileBuffer |-> "c5", fileExt |-> "png"],
     [bucketName |-> "bkt", storagekey |-> "k", fileBuffer |-> "c1", fileExt |-> "zzz"]}

\* DeleteObjectParams, DeleteObjectsParams, ListObjectsParams (778-791)
DeleteObjectParams == {[bucketName |-> "bkt", key |-> "a.png"]}
DeleteObjectsParams == {[bucketName |-> "bkt", keys |-> <<"a.png", "img/a.png">>]}
ListObjectsParams == {[bucketName |-> "bkt"]}

\* FileUploaderConfig (737-744): the two limits, each optional
Configs ==
    [maxFileSize : {None, Some(0), Some(1)},
     allowedFileTypes : {None, Some(<<"image/png">>)}]
\* arguments of setMaxFileSize / setAllowedFileTypes
SizeLimits == {0, 1}
TypeLists == {<<>>, <<"text/plain">>}

\* this.baseRemoteUrl
BaseRemoteUrl == "https://cdn"

\* what the store answers a command with: an HTTP status, or send() rejects
StoreAnswers == {[status |-> 200, error |-> ""], [status |-> 500, error |-> ""],
                 [status |-> 0, error |-> "E1"]}

\* the promise of a call
Uploading == [state |-> "pending", value |-> ""]
Returned(url) == [state |-> "resolved", value |-> url]
Threw(message) == [state |-> "rejected", value |-> message]

\* sha256 hex digest of the content (827-832): one digest per content
calculateFileHash(file) == "sha256:" \o file.content

\* Array.prototype.includes
Includes(list, x) == \E i \in 1..Len(list) : list[i] = x

\* mime.getType of an extension, or of a path by its extension; "" stands
\* for null (no type known)
MimeOf(ext) ==
    CASE ext = "png" -> "image/png"
      [] ext = "jpg" -> "image/jpeg"
      [] ext = "txt" -> "text/plain"
      [] OTHER -> ""

\* getMimeType (1076-1079)
getMimeType(extension) ==
    IF MimeOf(extension) # "" THEN MimeOf(extension) ELSE "unknown"

\* uploadFile, lines 858-870: the message of the Error the validation throws,
\* "" if it throws none
Validate(params, limit, allowed) ==
    IF params.bucketName = "" THEN "bucketName cannot be empty"
    ELSE IF params.file.size > limit THEN "File size exceeds the limit"
    ELSE IF Len(allowed) > 0 /\ ~Includes(allowed, params.file.type)
    THEN "Invalid file type"
    ELSE ""

\* lines 884 and 915: the key from its parts
KeyOf(keyPrefix, finalKeyName, finalKeySuffix) ==
    IF keyPrefix # ""
    THEN keyPrefix \o "/" \o finalKeyName \o "." \o finalKeySuffix
    ELSE finalKeyName \o "." \o finalKeySuffix

\* uploadFile, lines 880-884: the key of the object
FinalKey(params) ==
    KeyOf(params.keyPrefix,
          IF params.keyName # "" THEN params.keyName ELSE params.file.stem,
          IF params.keySuffix # "" THEN params.keySuffix ELSE params.file.ext)

\* uploadLocalFile, lines 911-915: the key of the object
FinalLocalKey(params) ==
    KeyOf(params.keyPrefix,
          IF params.keyName # "" THEN params.keyName ELSE params.filePath.stem,
          IF params.keySuffix # "" THEN params.keySuffix ELSE params.filePath.ext)

\* uploadToStorage, lines 1060-1066: the PutObjectCommand call i sends
PutObject(i, bucketName, key, body, contentType) ==
    [call |-> i, command |-> "PutObject", bucketName |-> bucketName, key |-> key,
     body |-> body, acl |-> "public-read",
     contentType |-> IF contentType # "" THEN contentType
                     ELSE "application/octet-stream",
     status |-> 0]

\* Map.has / Map.get / Map.set on fileCache
CacheHas(cache, hash) == \E e \in cache : e.hash = hash
CacheGet(cache, hash) == (CHOOSE e \in cache : e.hash = hash).url
CacheSet(cache, hash, url) ==
    {e \in cache : e.hash # hash} \cup {[hash |-> hash, url |-> url]}

\* uploadToStorage, lines 1068-1073, once send() has answered: the promise
\* of uploadToStorage
StorageResult(key, answer) ==
    IF answer.error # "" THEN Threw(answer.error)
    ELSE IF answer.status = 200 THEN Returned(BaseRemoteUrl \o "/" \o key)
    ELSE Threw("Upload failed")

\* uploadToStorage 1068-1073 and uploadFile 886-894 once send() has
\* answered: the promise of uploadFile and the cache after it
UploadResult(cache, hash, key, answer) ==
    LET r == StorageResult(key, answer) IN
    IF r.state = "resolved"
    THEN [outcome |-> r, cache |-> CacheSet(cache, hash, r.value)]
    ELSE [outcome |-> r, cache |-> cache]

\* the indices of the calls that have resolved
ResolvedCalls == {i \in 1..Len(uploads) : uploads[i].outcome.state = "resolved"}

\* uploadFile(params) up to its first await: destructuring and validation
\* against the limits in force now (kept as limit and allowed); a call that
\* passes awaits its hash.  History kept with the call: the limits asked for
\* so far, and `after`, the calls that had already resolved.
UploadFile(bound) ==
    /\ Len(uploads) < bound
    /\ \E params \in UploadParams :
          LET message == Validate(params, maxFileSize, allowedFileTypes) IN
          uploads' = Append(uploads,
                            [method |-> "uploadFile",
                             params |-> params,
                             limit |-> maxFileSize,
                             allowed |-> allowedFileTypes,
                             asked |-> asked,
                             after |-> ResolvedCalls,
                             pc |-> IF message = "" THEN "hash" ELSE "settled",
                             outcome |-> IF message = "" THEN Uploading
                                         ELSE Threw(message)])
    /\ UNCHANGED <<maxFileSize, allowedFileTypes, fileCache, requests, asked, disk,
                   facadeVars, connVars>>

\* lines 873-878 of call i, once calculateFileHash has answered: return the
\* cached URL, or await file.arrayBuffer()
Hashed(i) ==
    /\ uploads[i].pc = "hash"
    /\ LET fileHash == calculateFileHash(uploads[i].params.file) IN
       uploads' = IF CacheHas(fileCache, fileHash)
                  THEN [uploads EXCEPT
                           ![i].pc = "settled",
                           ![i].outcome = Returned(CacheGet(fileCache, fileHash))]
                  ELSE [uploads EXCEPT ![i].pc = "buffer"]
    /\ UNCHANGED <<maxFileSize, allowedFileTypes, fileCache, requests, asked, disk,
                   facadeVars, connVars>>

\* lines 878-891 of call i, once file.arrayBuffer() has answered: build the
\* key and hand the PutObject request to s3Client.send, whatever the cache
\* holds by now
Buffered(i) ==
    /\ uploads[i].pc = "buffer"
    /\ uploads' = [uploads EXCEPT ![i].pc = "store"]
    /\ LET params == uploads[i].params
           \* file.type || 'application/octet-stream'
           mimeType == IF params.file.type # "" THEN params.file.type
                       ELSE "application/octet-stream"
       IN  requests' = Append(requests,
                              PutObject(i, params.bucketName, FinalKey(params),
                                        params.file.content, mimeType))
    /\ UNCHANGED <<maxFileSize, allowedFileTypes, fileCache, asked, disk, facadeVars,
                   connVars>>

\* uploadLocalFile(params) called as call i, lines 901-922, up to its await:
\* the call and the request it sends, if the file exists.  batch is the
\* uploadBatch call that made it, 0 if none.
LocalCall(params, batch, files) ==
    IF PathOf(params.filePath) \notin files
    THEN [method |-> "uploadLocalFile", params |-> params, batch |-> batch,
          pc |-> "settled",
          outcome |-> Threw("File not found: " \o PathOf(params.filePath))]
    ELSE [method |-> "uploadLocalFile", params |-> params, batch |-> batch,
          pc |-> "store", outcome |-> Uploading]
LocalRequest(i, params, files) ==
    IF PathOf(params.filePath) \notin files THEN <<>>
    ELSE <<PutObject(i, params.bucketName, FinalLocalKey(params),
                     params.filePath.content,
                     \* mime.getType(keySuffix || filePath) || 'application/octet-stream'
                     IF MimeOf(IF params.keySuffix # "" THEN params.keySuffix
                               ELSE params.filePath.ext) # ""
                     THEN MimeOf(IF params.keySuffix # "" THEN params.keySuffix
                                 ELSE params.filePath.ext)
                     ELSE "application/octet-stream")>>

\* uploadLocalFile(params), lines 901-922: no validation, no cache
UploadLocalFile(bound) ==
    /\ Len(uploads) < bound
    /\ \E params \in UploadLocalParams :
          /\ uploads' = Append(uploads, LocalCall(params, 0, disk))
          /\ requests' = requests \o LocalRequest(Len(uploads) + 1, params, disk)
    /\ UNCHANGED <<maxFileSize, allowedFileTypes, fileCache, asked, disk, facadeVars,
                   connVars>>

\* uploadFileBuffer(params), lines 940-955: no validation, no cache
UploadFileBuffer(bound) ==
    /\ Len(uploads) < bound
    /\ \E params \in UploadFileBufferParams :
          /\ uploads' = Append(uploads,
                               [method |-> "uploadFileBuffer", params |-> params,
                                pc |-> "store", outcome |-> Uploading])
          /\ requests' = Append(requests,
                                PutObject(Len(uploads) + 1, params.bucketName,
                                          params.storagekey, params.fileBuffer,
                                          getMimeType(params.fileExt)))
    /\ UNCHANGED <<maxFileSize, allowedFileTypes, fileCache, asked, disk, facadeVars,
                   connVars>>

\* filePaths.map(filePath => this.uploadLocalFile({...})), lines 967-976:
\* the calls made for the paths from the nth on, the first as call i
RECURSIVE BatchCalls(_, _, _, _)
BatchCalls(params, n, batch, files) ==
    IF n > Len(params.filePaths) THEN <<>>
    ELSE <<LocalCall([filePath |-> params.filePaths[n],
                      bucketName |-> params.bucketName,
                      keyPrefix |-> params.keyPrefix,
                      keyName |-> params.keyName,
                      keySuffix |-> params.keySuffix,
                      removeAfterUpload |-> params.removeAfterUpload], batch, files)>>
         \o BatchCalls(params, n + 1, batch, files)
RECURSIVE BatchRequests(_, _, _, _)
BatchRequests(params, n, i, files) ==
    IF n > Len(params.filePaths) THEN <<>>
    ELSE LocalRequest(i, [filePath |-> params.filePaths[n],
                          bucketName |-> params.bucketName,
                          keyPrefix |-> params.keyPrefix,
                          keyName |-> params.keyName,
                          keySuffix |-> params.keySuffix,
                          removeAfterUpload |-> params.removeAfterUpload], files)
         \o BatchRequests(params, n + 1, i + 1, files)

\* Promise.all over the calls `children` of ups (966): rejected with the
\* error of the first rejected child, resolved with the URLs once every
\* child has resolved, else pending
PromiseAll(ups, children) ==
    LET rejected == {n \in 1..Len(children) : ups[children[n]].outcome.state = "rejected"}
    IN  IF rejected # {}
        THEN Threw(ups[children[CHOOSE n \in rejected : \A m \in rejected : n <= m]]
                       .outcome.value)
        ELSE IF \A n \in 1..Len(children) : ups[children[n]].outcome.state = "resolved"
        THEN Returned([n \in 1..Len(children) |-> ups[children[n]].outcome.value])
        ELSE Uploading

\* uploadBatch(params), lines 963-979: one uploadLocalFile call per path,
\* all started at once, and the await of Promise.all
UploadBatch(bound) ==
    /\ \E params \in UploadBatchParams :
          LET b == Len(uploads) + 1
              children == [n \in 1..Len(params.filePaths) |-> b + n]
              calls == BatchCalls(params, 1, b, disk)
              all == PromiseAll(uploads \o <<[outcome |-> Uploading]>> \o calls, children)
          IN  /\ Len(uploads) + 1 + Len(params.filePaths) <= bound
              /\ uploads' = uploads
                            \o <<[method |-> "uploadBatch", params |-> params,
                                  children |-> children,
                                  pc |-> IF all.state = "pending" THEN "all" ELSE "settled",
                                  outcome |-> all]>>
                            \o calls
              /\ requests' = requests \o BatchRequests(params, 1, b + 1, disk)
    /\ UNCHANGED <<maxFileSize, allowedFileTypes, fileCache, asked, disk, facadeVars,
                   connVars>>

\* deleteObject(params), lines 1008-1014
DeleteObject(bound) ==
    /\ Len(uploads) < bound
    /\ \E params \in DeleteObjectParams :
          /\ uploads' = Append(uploads,
                               [method |-> "deleteObject", params |-> params,
                                pc |-> "store", outcome |-> Uploading])
          /\ requests' = Append(requests,
                                [call |-> Len(uploads) + 1, command |-> "DeleteObject",
                                 bucketName |-> params.bucketName, key |-> params.key,
                                 status |-> 0])
    /\ UNCHANGED <<maxFileSize, allowedFileTypes, fileCache, asked, disk, facadeVars,
                   connVars>>

\* deleteObjects(params), lines 1021-1029
DeleteObjects(bound) ==
    /\ Len(uploads) < bound
    /\ \E params \in DeleteObjectsParams :
          /\ uploads' = Append(uploads,
                               [method |-> "deleteObjects", params |-> params,
                                pc |-> "store", outcome |-> Uploading])
          /\ requests' = Append(requests,
                                [call |-> Len(uploads) + 1, command |-> "DeleteObjects",
                                 bucketName |-> params.bucketName,
                                 objects |-> params.keys, status |-> 0])
    /\ UNCHANGED <<maxFileSize, allowedFileTypes, fileCache, asked, disk, facadeVars,
                   connVars>>

\* listObjects(params), lines 1036-1041
ListObjects(bound) ==
    /\ Len(uploads) < bound
    /\ \E params \in ListObjectsParams :
          /\ uploads' = Append(uploads,
                               [method |-> "listObjects", params |-> params,
                                pc |-> "store", outcome |-> Uploading])
          /\ requests' = Append(requests,
                                [call |-> Len(uploads) + 1, command |-> "ListObjectsV2",
                                 bucketName |-> params.bucketName, status |-> 0])
    /\ UNCHANGED <<maxFileSize, allowedFileTypes, fileCache, asked, disk, facadeVars,
                   connVars>>

\* the request of call i
RequestOf(i) == CHOOSE n \in 1..Len(requests) : requests[n].call = i

\* ups once call i has settled: the uploadBatch call that awaits it, if any,
\* settles when Promise.all does
BatchAfter(ups, i) ==
    IF ups[i].method = "uploadLocalFile" /\ ups[i].batch # 0
       /\ ups[ups[i].batch].pc = "all"
    THEN LET b == ups[i].batch
             all == PromiseAll(ups, ups[b].children)
         IN  IF all.state = "pending" THEN ups
             ELSE [ups EXCEPT ![b].pc = "settled", ![b].outcome = all]
    ELSE ups

\* call i once the store has answered its command.  uploadFile, lines
\* 1068-1073 and 893-894: the URL is cached and returned.  uploadLocalFile,
\* 1068-1073 and 924-927: the URL is returned, after the unlink if one was
\* asked for.  uploadFileBuffer, 1068-1073 and 955.  deleteObject and
\* deleteObjects resolve with nothing, listObjects with the response of the
\* store; they look at no status.
StoreAnswered(i) ==
    /\ uploads[i].pc = "store"
    /\ \E answer \in StoreAnswers :
          LET key == requests[RequestOf(i)].key
              method == uploads[i].method
          IN  /\ requests' = [requests EXCEPT ![RequestOf(i)].status = answer.status]
              /\ IF method = "uploadFile"
                 THEN LET r == UploadResult(fileCache,
                                            calculateFileHash(uploads[i].params.file),
                                            key, answer)
                      IN  /\ uploads' = [uploads EXCEPT ![i].pc = "settled",
                                                        ![i].outcome = r.outcome]
                          /\ fileCache' = r.cache
                 ELSE /\ fileCache' = fileCache
                      /\ uploads' =
                           IF method = "uploadLocalFile"
                           THEN IF StorageResult(key, answer).state = "resolved"
                                   /\ uploads[i].params.removeAfterUpload
                                THEN [uploads EXCEPT ![i].pc = "unlink"]
                                ELSE BatchAfter(
                                         [uploads EXCEPT
                                             ![i].pc = "settled",
                                             ![i].outcome = StorageResult(key, answer)],
                                         i)
                           ELSE IF method = "uploadFileBuffer"
                           THEN [uploads EXCEPT ![i].pc = "settled",
                                                ![i].outcome = StorageResult(key, answer)]
                           ELSE [uploads EXCEPT
                                    ![i].pc = "settled",
                                    ![i].outcome =
                                        IF answer.error # "" THEN Threw(answer.error)
                                        ELSE IF method = "listObjects"
                                        THEN Returned([httpStatusCode |-> answer.status])
                                        ELSE Returned("")]
    /\ UNCHANGED <<maxFileSize, allowedFileTypes, asked, disk, facadeVars, connVars>>

\* uploadLocalFile, line 925 of call i: fs.promises.unlink(filePath) runs in
\* the file system while the call awaits it.  The file is gone, or the unlink
\* failed; the call is still pending, and whatever runs before the
\* completion is delivered sees the disk as it is now.
UnlinkRuns(i) ==
    /\ uploads[i].pc = "unlink"
    /\ \/ disk' = disk \ {PathOf(uploads[i].params.filePath)}
       \/ disk' = disk
    /\ uploads' = [uploads EXCEPT ![i].pc = "unlinked"]
    /\ UNCHANGED <<maxFileSize, allowedFileTypes, fileCache, requests, asked, facadeVars,
                   connVars>>

\* uploadLocalFile, lines 925-928 of call i, once the completion of the
\* unlink is delivered: a failure is only logged, the URL is returned
Unlinked(i) ==
    /\ uploads[i].pc = "unlinked"
    /\ uploads' = BatchAfter(
                      [uploads EXCEPT
                          ![i].pc = "settled",
                          ![i].outcome = Returned(BaseRemoteUrl \o "/"
                                                  \o requests[RequestOf(i)].key)],
                      i)
    /\ UNCHANGED <<maxFileSize, allowedFileTypes, fileCache, requests, asked, disk,
                   facadeVars, connVars>>

\* setMaxFileSize (1091-1093)
SetMaxFileSize ==
    /\ \E n \in SizeLimits :
          /\ maxFileSize' = n
          /\ asked' = [asked EXCEPT !.maxFileSize = Some([by |-> "setter", value |-> n])]
    /\ UNCHANGED <<allowedFileTypes, fileCache, requests, uploads, disk, facadeVars,
                   connVars>>

\* setAllowedFileTypes (1105-1107)
SetAllowedFileTypes ==
    /\ \E types \in TypeLists :
          /\ allowedFileTypes' = types
          /\ asked' = [asked EXCEPT
                          !.allowedFileTypes = Some([by |-> "setter", value |-> types])]
    /\ UNCHANGED <<maxFileSize, fileCache, requests, uploads, disk, facadeVars, connVars>>

\* new FileUploaderService(config), lines 795-812: a limit of the config
\* replaces the default if it is truthy (an empty array is, 0 is not)
Constructed(config) ==
    /\ maxFileSize = IF config.maxFileSize # None /\ config.maxFileSize[1] # 0
                     THEN config.maxFileSize[1] ELSE DefaultMaxFileSize
    /\ allowedFileTypes = IF config.allowedFileTypes # None
                          THEN config.allowedFileTypes[1] ELSE <<>>
    /\ fileCache = {}
    /\ asked = [maxFileSize |->
                    IF config.maxFileSize = None THEN None
                    ELSE Some([by |-> "constructor", value |-> config.maxFileSize[1]]),
                allowedFileTypes |->
                    IF config.allowedFileTypes = None THEN None
                    ELSE Some([by |-> "constructor",
                               value |-> config.allowedFileTypes[1]])]

InitUpload ==
    /\ NoFacade
    /\ NoConnection
    /\ \E config \in Configs : Constructed(config)
    /\ requests = <<>>
    /\ uploads = <<>>
    /\ disk = {PathOf(OnDisk)}

NextUpload ==
    \/ UploadFile(MaxChecked)
    \/ \E i \in 1..Len(uploads) : Hashed(i)
    \/ \E i \in 1..Len(uploads) : Buffered(i)
    \/ UploadLocalFile(MaxChecked)
    \/ UploadFileBuffer(MaxChecked)
    \/ UploadBatch(MaxChecked)
    \/ DeleteObject(MaxChecked)
    \/ DeleteObjects(MaxChecked)
    \/ ListObjects(MaxChecked)
    \/ \E i \in 1..Len(uploads) : StoreAnswered(i)
    \/ \E i \in 1..Len(uploads) : UnlinkRuns(i)
    \/ \E i \in 1..Len(uploads) : Unlinked(i)
    \/ SetMaxFileSize
    \/ SetAllowedFileTypes

\* the limits are set while files are uploaded
SpecUpload == InitUpload /\ [][NextUpload]_vars

InitCache ==
    /\ NoFacade
    /\ NoConnection
    /\ NoUploader

NextCache ==
    \/ UploadFile(MaxUploads)
    \/ \E i \in 1..Len(uploads) : Hashed(i)
    \/ \E i \in 1..Len(uploads) : Buffered(i)
    \/ UploadLocalFile(MaxUploads)
    \/ UploadFileBuffer(MaxUploads)
    \/ UploadBatch(MaxUploads)
    \/ DeleteObject(MaxUploads)
    \/ DeleteObjects(MaxUploads)
    \/ ListObjects(MaxUploads)
    \/ \E i \in 1..Len(uploads) : StoreAnswered(i)
    \/ \E i \in 1..Len(uploads) : UnlinkRuns(i)
    \/ \E i \in 1..Len(uploads) : Unlinked(i)

\* calls on an uploader whose limits stay the default ones
SpecCache == InitCache /\ [][NextCache]_vars

-----------------------------------------------------------------------------
(* Reading a statement back *)

\* the indices of the placeholders of a text, left to right
PhIndices(text) ==
    LET phs == SelectSeq(text, LAMBDA t : t.kind = "ph")
    IN  [i \in 1..Len(phs) |-> phs[i].n]

\* <<a, a + 1, ..., a + n - 1>>
CountUp(a, n) == [i \in 1..n |-> a + i - 1]

\* first position of token t in text, 0 if there is none
FirstPos(text, t) ==
    IF \E i \in 1..Len(text) : text[i] = t
    THEN CHOOSE i \in 1..Len(text) : text[i] = t /\ \A j \in 1..(i - 1) : text[j] # t
    ELSE 0

\* the predicate of a statement: what follows WHERE, up to ORDER BY / RETURNING
WherePart(text) ==
    LET w == FirstPos(text, Kw("WHERE"))
        ends == {i \in 1..Len(text) : text[i] \in {Kw("ORDER BY"), Kw("RETURNING *")}}
        e == IF ends = {} THEN Len(text) + 1 ELSE CHOOSE i \in ends : \A j \in ends : i <= j
    IN  IF w = 0 THEN <<>> ELSE SubSeq(text, w + 1, e - 1)

\* what precedes WHERE (the whole text if there is no WHERE)
BeforeWhere(text) ==
    LET w == FirstPos(text, Kw("WHERE"))
    IN  IF w = 0 THEN text ELSE SubSeq(text, 1, w - 1)

\* The parameters a tree asks for, depth-first and left to right: nothing for
\* IS NULL / IS NOT NULL, the elements of the list for IN, else the value.
RECURSIVE ParamsInOrder(_)
ParamsInOrder(items) ==
    IF Len(items) = 0 THEN <<>>
    ELSE LET item == Head(items)
             own == IF ~IsCondition(item) THEN ParamsInOrder(item.conditions)
                    ELSE IF item.operator \in {"IS NULL", "IS NOT NULL"} THEN <<>>
                    ELSE IF item.operator = "IN" /\ IsArray(item.value)
                    THEN [i \in 1..Len(item.value.array) |-> Scalar(item.value.array[i])]
                    ELSE <<item.value>>
         IN  own \o ParamsInOrder(Tail(items))

\* the call ran buildWhereClause on whereOptions
Compiled == op = "buildWhereClause"
CompiledByFindAllCustom == op = "findAllCustom" /\ Len(whereOptions.conditions) > 0

\* number of "(" minus number of ")" among the first i - 1 tokens of text
Depth(text, i) ==
    Cardinality({j \in 1..(i - 1) : text[j] = Sym("(")})
    - Cardinality({j \in 1..(i - 1) : text[j] = Sym(")")})

\* positions of the AND / OR keywords of text that lie outside all parentheses
JoinPositions(text) ==
    {i \in 1..Len(text) : text[i].kind = "kw" /\ text[i].text \in Logics
                          /\ Depth(text, i) = 0}

\* text cut at those keywords: the fragments a join put together
RECURSIVE Fragments(_)
Fragments(text) ==
    LET joins == JoinPositions(text) IN
    IF Len(text) = 0 THEN <<>>
    ELSE IF joins = {} THEN <<text>>
    ELSE LET j == CHOOSE i \in joins : \A k \in joins : i <= k
         IN  <<SubSeq(text, 1, j - 1)>> \o Fragments(SubSeq(text, j + 1, Len(text)))

\* The runs of a where-clause builder on whereOptions that the call made: the
\* clause, the parameters of the whole statement, and the first index the
\* builder was given.
StatementRun(s) ==
    [clause |-> WherePart(s.text), params |-> s.params,
     base |-> 1 + Len(PhIndices(BeforeWhere(s.text)))]
Runs ==
    IF Len(whereOptions.conditions) = 0 THEN {}
    ELSE {StatementRun(sent[n]) : n \in 1..Len(sent)}
         \cup (IF Compiled
               THEN {[clause |-> compiled.clause, params |-> compiled.values, base |-> start]}
               ELSE {})
\* those of the recursive builder buildWhereClause
RecursiveRuns ==
    IF Compiled
    THEN {[clause |-> compiled.clause, params |-> compiled.values, base |-> start]}
    ELSE IF CompiledByFindAllCustom THEN {StatementRun(sent[1])}
    ELSE {}

\* every text of SQL the call produced
Texts == {sent[n].text : n \in 1..Len(sent)} \cup {compiled.clause}

RECURSIVE HasScalarIn(_)
HasScalarIn(items) ==
    \E i \in 1..Len(items) :
        IF IsCondition(items[i])
        THEN items[i].operator = "IN" /\ ~IsArray(items[i].value)
        ELSE HasScalarIn(items[i].conditions)

IsNullCheck(item) ==
    IsCondition(item) /\ item.operator \in {"IS NULL", "IS NOT NULL"}
IsEmptyGroup(item) == ~IsCondition(item) /\ Len(item.conditions) = 0

\* what is dropped from a tree: its null checks or its empty nested groups
Drops(what, item) ==
    IF what = "null checks" THEN IsNullCheck(item) ELSE IsEmptyGroup(item)

\* items without the children, at any depth, of the kind `what`
RECURSIVE Without(_, _)
Without(items, what) ==
    IF Len(items) = 0 THEN <<>>
    ELSE LET item == Head(items)
             kept == IF Drops(what, item) THEN <<>>
                     ELSE IF IsCondition(item) THEN <<item>>
                     ELSE <<[logic |-> item.logic,
                             conditions |-> Without(item.conditions, what)]>>
         IN  kept \o Without(Tail(items), what)

\* number of children, at any depth, of the kind `what`
RECURSIVE CountItems(_, _)
CountItems(items, what) ==
    IF Len(items) = 0 THEN 0
    ELSE LET item == Head(items)
         IN  (IF Drops(what, item) THEN 1 ELSE 0)
             + (IF IsCondition(item) THEN 0 ELSE CountItems(item.conditions, what))
             + CountItems(Tail(items), what)

\* text is the children of group, in order, joined by the group's logic:
\* a condition as its field and operator followed by placeholders only, a
\* nested group as one pair of parentheses around its own children
RECURSIVE ReadsAs(_, _)
ReadsAs(text, group) ==
    LET frs == Fragments(text) IN
    /\ Len(frs) = Len(group.conditions)
    /\ \A i \in JoinPositions(text) : text[i] = Kw(group.logic)
    /\ \A j \in 1..Len(frs) :
          LET item == group.conditions[j]
              f == frs[j]
          IN  /\ Len(f) >= 2
              /\ IF IsCondition(item)
                 THEN /\ f[1] = Ident(item.field)
                      /\ f[2] = Oper(item.operator)
                      /\ \A i \in 3..Len(f) : f[i].kind \in {"ph", "sym"}
                      /\ Len(f) > 2 /\ f[3] = Sym("(") => item.operator = "IN"
                 ELSE /\ f[1] = Sym("(")
                      /\ f[Len(f)] = Sym(")")
                      /\ \A i \in 2..Len(f) : Depth(f, i) >= 1
                      /\ ReadsAs(SubSeq(f, 2, Len(f) - 1), item)

-----------------------------------------------------------------------------
(* Claims *)

\* C1: the placeholder indices of the compiled clause, read left to right,
\* count up by one from the start index (1 in findAllCustom), across sibling
\* conditions, sibling nested groups and after a nested group returns.
C1_PlaceholdersCountUp ==
    /\ Compiled =>
          LET idx == PhIndices(compiled.clause) IN idx = CountUp(start, Len(idx))
    /\ CompiledByFindAllCustom =>
          LET idx == PhIndices(WherePart(sent[1].text)) IN idx = CountUp(1, Len(idx))

\* C2: placeholder $N of the statement findAllCustom sends belongs to the
\* condition whose value is at position N of the parameters: the i-th
\* placeholder of the text names the position that holds the i-th parameter
\* the tree asks for.
C2_PlaceholderNamesItsValue ==
    CompiledByFindAllCustom =>
        LET idx == PhIndices(WherePart(sent[1].text))
            want == ParamsInOrder(whereOptions.conditions)
        IN  /\ Len(idx) = Len(want)
            /\ \A i \in 1..Len(idx) :
                  /\ idx[i] \in 1..Len(sent[1].params)
                  /\ sent[1].params[idx[i]] = want[i]

\* C3: the clause buildWhereClause returns holds as many placeholders as the
\* call appended parameters.
C3_PlaceholderCountIsParamCount ==
    /\ Compiled => Len(PhIndices(compiled.clause)) = Len(compiled.values) - (start - 1)
    /\ CompiledByFindAllCustom =>
          Len(PhIndices(WherePart(sent[1].text))) = Len(sent[1].params)

\* C3 witness: a nested tree with an IN list compiled to three parameters
C3_Witness ==
    /\ Compiled
    /\ ~IsFlat(whereOptions)
    /\ Len(compiled.values) - (start - 1) = 3
    /\ \E i \in 1..Len(compiled.clause) : compiled.clause[i] = Oper("IN")

\* C4: a condition IN [v1..vk] compiles to "<field> IN ($i, ..., $i+k-1)" and
\* puts the elements v1..vk, one scalar each, at positions i..i+k-1 of the
\* parameters, in buildWhereClause and in the flat builders alike.
C4_InListElementsAreParams ==
    \A r \in Runs : \A j \in 1..Len(whereOptions.conditions) :
        LET c == whereOptions.conditions[j] IN
        (IsCondition(c) /\ c.operator = "IN" /\ IsArray(c.value)) =>
            LET k == Len(c.value.array)
                i == r.base + Len(ParamsInOrder(SubSeq(whereOptions.conditions, 1, j - 1)))
                frs == Fragments(r.clause)
            IN  /\ Len(frs) = Len(whereOptions.conditions)
                /\ frs[j] = <<Ident(c.field), Oper("IN"), Sym("(")>>
                            \o Placeholders(k, i) \o <<Sym(")")>>
                /\ i + k - 1 <= Len(r.params)
                /\ SubSeq(r.params, i, i + k - 1) = [n \in 1..k |-> Scalar(c.value.array[n])]

\* C5: IN with a value that is no array fails fast: the call throws, nothing
\* is compiled or sent, and no text holds "IN $n".
C5_ScalarInFailsFast ==
    /\ (op # "none" /\ HasScalarIn(whereOptions.conditions)) =>
          (thrown # "" /\ sent = <<>> /\ compiled = NoCompiled)
    /\ \A text \in Texts : \A i \in 1..(Len(text) - 1) :
          text[i] = Oper("IN") => text[i + 1].kind # "ph"

\* C6: no text holds the fragment "<field> IN ()".
C6_NoEmptyInList ==
    \A text \in Texts : \A i \in 1..(Len(text) - 2) :
        ~(text[i] = Oper("IN") /\ text[i + 1] = Sym("(") /\ text[i + 2] = Sym(")"))

\* C7: in the clause buildWhereClause returns, every nested group is its own
\* children inside exactly one pair of parentheses, at every depth; the
\* top-level group and the conditions are not wrapped; siblings are joined by
\* the logic of the group that holds them.
C7_NestedGroupsParenthesized ==
    \A r \in RecursiveRuns : ReadsAs(r.clause, whereOptions)

\* C7 witness: a group nested in a nested group, beside a sibling
C7_Witness ==
    /\ Compiled
    /\ Len(whereOptions.conditions) = 2
    /\ ~IsCondition(whereOptions.conditions[1])
    /\ Len(whereOptions.conditions[1].conditions) = 1
    /\ ~IsCondition(whereOptions.conditions[1].conditions[1])
    /\ IsCondition(whereOptions.conditions[2])

\* C8: an IS NULL / IS NOT NULL condition compiles to its field and operator
\* alone, adds no parameter and takes no index: parameters and placeholder
\* numbering are those of the tree without these conditions.
C8_NullCheckTakesNoParameter ==
    \A r \in RecursiveRuns :
        LET frs == Fragments(r.clause)
            rest == buildWhereClause(
                        [logic |-> whereOptions.logic,
                         conditions |-> Without(whereOptions.conditions, "null checks")],
                        Prefix(r.base - 1), r.base)
        IN  /\ \A j \in 1..Len(whereOptions.conditions) :
                  IsNullCheck(whereOptions.conditions[j]) =>
                      /\ Len(frs) = Len(whereOptions.conditions)
                      /\ frs[j] = <<Ident(whereOptions.conditions[j].field),
                                    Oper(whereOptions.conditions[j].operator)>>
            /\ SubSeq(r.params, r.base, Len(r.params))
                  = SubSeq(rest.values, r.base, Len(rest.values))
            /\ PhIndices(r.clause) = PhIndices(rest.clause)

\* C8 witness: IS NULL first, then a sibling that takes a parameter, from index 2
C8_Witness ==
    /\ Compiled
    /\ start = 2
    /\ Len(whereOptions.conditions) = 2
    /\ IsNullCheck(whereOptions.conditions[1])
    /\ IsCondition(whereOptions.conditions[2])
    /\ whereOptions.conditions[2].operator = "="
    /\ PhIndices(compiled.clause) = <<2>>

\* C9: bulkUpdate with k data keys numbers the SET clause $1..$k in key order
\* and the WHERE clause from $k+1 on, one step per condition parameter; the
\* values are the data values followed by the condition values, so the Nth
\* placeholder of the statement stands for the Nth value.
C9_BulkUpdateNumbering ==
    (op = "bulkUpdate" /\ thrown = "") =>
        LET s == sent[1]
            k == Len(data)
            set == BeforeWhere(s.text)
            keys == SelectSeq(SubSeq(set, 3, Len(set)), LAMBDA t : t.kind = "ident")
            want == ParamsInOrder(whereOptions.conditions)
        IN  /\ Len(sent) = 1
            /\ keys = [i \in 1..k |-> Ident(data[i].key)]
            /\ PhIndices(set) = CountUp(1, k)
            /\ PhIndices(WherePart(s.text)) = CountUp(k + 1, Len(want))
            /\ s.params = ObjectValues(data) \o want
            /\ PhIndices(s.text) = CountUp(1, Len(s.params))

\* C9 witness: two data keys and conditions that take three parameters
C9_Witness ==
    /\ op = "bulkUpdate"
    /\ Len(data) = 2
    /\ Len(sent) = 1
    /\ Len(sent[1].params) = 5
    /\ \E i \in 1..Len(sent[1].text) : sent[1].text[i] = Ph(5)

\* C10: a group without children compiles to the empty clause and adds no
\* parameter, as the top-level group and as a nested one (where the parent
\* puts its parentheses around the empty text); parameters and placeholder
\* numbering are those of the tree without its empty nested groups.
C10_EmptyGroupCompilesToNothing ==
    /\ (Compiled /\ Len(whereOptions.conditions) = 0) =>
          (compiled.clause = <<>> /\ compiled.values = Prefix(start - 1))
    /\ \A r \in RecursiveRuns :
          LET rest == buildWhereClause(
                          [logic |-> whereOptions.logic,
                           conditions |-> Without(whereOptions.conditions, "empty groups")],
                          Prefix(r.base - 1), r.base)
          IN  /\ Cardinality({i \in 1..(Len(r.clause) - 1) :
                                 /\ r.clause[i] = Sym("(")
                                 /\ r.clause[i + 1] = Sym(")")
                                 /\ (i = 1 \/ r.clause[i - 1] # Oper("IN"))})
                    = CountItems(whereOptions.conditions, "empty groups")
              /\ SubSeq(r.params, r.base, Len(r.params))
                    = SubSeq(rest.values, r.base, Len(rest.values))
              /\ PhIndices(r.clause) = PhIndices(rest.clause)

\* C10 witness: an empty nested group followed by a condition with a parameter
C10_Witness ==
    /\ Compiled
    /\ start = 2
    /\ Len(whereOptions.conditions) = 2
    /\ IsEmptyGroup(whereOptions.conditions[1])
    /\ IsCondition(whereOptions.conditions[2])
    /\ PhIndices(compiled.clause) = <<2>>

\* C11: for an empty condition list, findAllCustom, findAllWithPagination,
\* bulkUpdate and bulkDelete send no statement in which WHERE is followed by
\* an empty predicate: the statement has no WHERE, or the call rejects.
C11_NoEmptyWhere ==
    Len(whereOptions.conditions) = 0 =>
        \A n \in 1..Len(sent) :
            FirstPos(sent[n].text, Kw("WHERE")) # 0 => WherePart(sent[n].text) # <<>>

\* another datum in the place of datum s: "swap" exchanges x and y, any
\* other tag puts the tag itself
OtherDatum(s, tag) ==
    IF tag = "swap" THEN (IF s = "x" THEN "y" ELSE "x") ELSE tag

\* a value of the same kind and length holding other data
Revalued(value, tag) ==
    IF IsArray(value)
    THEN Arr([i \in 1..Len(value.array) |-> OtherDatum(value.array[i], tag)])
    ELSE Scalar(OtherDatum(value.scalar, tag))

\* the tree of the same shape, fields, operators and IN-list lengths whose
\* values are the revalued ones
RECURSIVE RevaluedItems(_, _)
RevaluedItems(items, tag) ==
    [i \in 1..Len(items) |->
        IF IsCondition(items[i])
        THEN [field |-> items[i].field, operator |-> items[i].operator,
              value |-> Revalued(items[i].value, tag)]
        ELSE [logic |-> items[i].logic,
              conditions |-> RevaluedItems(items[i].conditions, tag)]]

\* the data that occur in the values of a tree
RECURSIVE DataOf(_)
DataOf(items) ==
    UNION {IF ~IsCondition(items[i]) THEN DataOf(items[i].conditions)
           ELSE IF IsArray(items[i].value)
           THEN {items[i].value.array[n] : n \in 1..Len(items[i].value.array)}
           ELSE {items[i].value.scalar} : i \in 1..Len(items)}

\* C12: condition values never appear in the clause text buildWhereClause
\* returns: a tree of the same shape, fields, operators and IN-list lengths
\* with other values compiles to the identical text, and the two results
\* differ only in the parameters, value for value.
C12_ValuesStayOutOfText ==
    \A r \in RecursiveRuns :
        /\ \A i \in 1..Len(r.clause) :
              /\ r.clause[i].kind \in {"ident", "op", "ph", "sym", "kw"}
              /\ r.clause[i].text \notin DataOf(whereOptions.conditions)
        /\ \A tag \in {"swap", "z"} :
              LET other == buildWhereClause(
                               [logic |-> whereOptions.logic,
                                conditions |-> RevaluedItems(whereOptions.conditions, tag)],
                               Prefix(r.base - 1), r.base)
              IN  /\ other.clause = r.clause
                  /\ Len(other.values) = Len(r.params)
                  /\ \A i \in r.base..Len(r.params) :
                        other.values[i] = Revalued(r.params[i], tag)

\* C12 witness: a nested tree with a comparison and an IN list, compiled to
\* parameters that the revalued tree would change
C12_Witness ==
    /\ Compiled
    /\ ~IsFlat(whereOptions)
    /\ \E i \in 1..Len(compiled.clause) : compiled.clause[i] = Oper("=")
    /\ \E i \in 1..Len(compiled.clause) : compiled.clause[i] = Oper("IN")
    /\ \E i \in start..Len(compiled.values) :
          IsArray(compiled.values[i]) /\ Len(compiled.values[i].array) = 2
    /\ \E i \in start..Len(compiled.values) : ~IsArray(compiled.values[i])

\* the text after the predicate: from ORDER BY / RETURNING on
AfterWhere(text) ==
    SubSeq(text, Len(BeforeWhere(text)) + 1 + Len(WherePart(text)) + 1, Len(text))

\* C13: for a non-empty condition group on table t, findAllCustom sends
\* "SELECT * FROM t WHERE <clause>" followed only by an optional ORDER BY,
\* bulkUpdate sends "UPDATE t SET <k1> = $1, ... WHERE <clause> RETURNING *"
\* and bulkDelete sends "DELETE FROM t WHERE <clause> RETURNING *", one
\* statement each, where <clause> is the predicate compiled from the group:
\* what buildWhereClause returns for it from index 1 in findAllCustom, its
\* conditions in order joined by its logic in the other two.
C13_StatementShapes ==
    (Len(whereOptions.conditions) > 0 /\ thrown = "") =>
        /\ op = "findAllCustom" =>
              /\ Len(sent) = 1
              /\ BeforeWhere(sent[1].text) = <<Kw("SELECT * FROM"), Ident(TableName)>>
              /\ FirstPos(sent[1].text, Kw("WHERE")) = 3
              /\ WherePart(sent[1].text) = buildWhereClause(whereOptions, <<>>, 1).clause
              /\ LET tail == AfterWhere(sent[1].text)
                 IN  tail = <<>> \/ (tail[1] = Kw("ORDER BY") /\ Len(tail) > 1)
        /\ op = "bulkUpdate" =>
              /\ Len(sent) = 1
              /\ BeforeWhere(sent[1].text)
                    = <<Kw("UPDATE"), Ident(TableName), Kw("SET")>>
                      \o Join([i \in 1..Len(data) |->
                                  <<Ident(data[i].key), Oper("="), Ph(i)>>], <<Sym(",")>>)
              /\ FirstPos(sent[1].text, Kw("WHERE")) = Len(BeforeWhere(sent[1].text)) + 1
              /\ ReadsAs(WherePart(sent[1].text), whereOptions)
              /\ AfterWhere(sent[1].text) = <<Kw("RETURNING *")>>
        /\ op = "bulkDelete" =>
              /\ Len(sent) = 1
              /\ BeforeWhere(sent[1].text) = <<Kw("DELETE FROM"), Ident(TableName)>>
              /\ FirstPos(sent[1].text, Kw("WHERE")) = 3
              /\ ReadsAs(WherePart(sent[1].text), whereOptions)
              /\ AfterWhere(sent[1].text) = <<Kw("RETURNING *")>>

\* C13 witness: bulkDelete on two conditions, the second an IN list
C13_Witness ==
    /\ op = "bulkDelete"
    /\ Len(whereOptions.conditions) = 2
    /\ whereOptions.logic = "OR"
    /\ whereOptions.conditions[2].operator = "IN"
    /\ IsArray(whereOptions.conditions[2].value)
    /\ Len(sent) = 1
    /\ Len(sent[1].params) = 3

\* C15: findAllWithPagination returns in data only the rows of the requested
\* page: once it has resolved, the data statement it ran ends with LIMIT limit
\* OFFSET (page - 1) * limit, so data holds at most limit rows.
C15_DataIsThePage ==
    (op = "findAllWithPagination" /\ thrown = "") =>
        LET text == sent[Len(sent)].text
            n == Len(text)
            offset == (returned.page - 1) * returned.limit
        IN  /\ n >= 4
            /\ SubSeq(text, n - 3, n)
                  = <<Kw("LIMIT"), Num(returned.limit), Kw("OFFSET"), Num(offset)>>
            /\ returned.rows <= returned.limit

\* the call has settled: its promise is resolved or rejected
Settled == call.pc = "settled"

\* C14: when the connection raises an error while executing the statement of
\* create, findById, findAll, findAllCustom, update, bulkUpdate, delete,
\* bulkDelete or executeQuery, the operation rejects with that same error.
C14_ConnectionErrorPropagates ==
    (Settled /\ call.op \in QueryOps /\ call.raised # <<>>) =>
        /\ Len(call.raised) = 1
        /\ call.outcome = Rejected(call.raised[1])

\* C14 witness: the UPDATE of bulkUpdate failed with E2 and the call rejected
C14_Witness ==
    /\ Settled
    /\ call.op = "bulkUpdate"
    /\ call.log = <<Issued("UPDATE", 0)>>
    /\ call.raised = <<"E2">>
    /\ call.outcome.state = "rejected"

\* C16: however many DatabaseService instances are constructed, at most one
\* pool is ever created and every instance holds that pool; once the pool
\* exists, no later construction (whatever its connection string) adds a
\* pool or changes the connection string of the one there is.
C16_OnePoolForAll ==
    /\ [](/\ Len(pools) <= 1
          /\ instance = Len(pools)
          /\ \A s \in 1..Len(services) : services[s].pool = 1 /\ instance = 1)
    /\ [][pools # <<>> =>
             /\ Len(pools') = 1
             /\ pools'[1].connectionString = pools[1].connectionString]_vars

\* C16 witness: two instances constructed with different connection strings,
\* the second one holding the pool of the first
C16_Witness ==
    /\ Len(services) = 2
    /\ services[1].connectionString = "pgA"
    /\ services[2].connectionString = "pgB"
    /\ services[2].pool = services[1].pool
    /\ pools[services[2].pool].connectionString = "pgA"

\* C17: every client query() or bulkCreate() acquires is released exactly
\* once before the promise settles, on success and on every failure path; a
\* client is held, unreleased, while the call's statements run; nothing is
\* released when acquiring failed.
C17_ClientReleasedOnce ==
    /\ call.released <= call.acquired
    /\ call.acquired <= 1
    /\ Settled <=> call.outcome.state # "pending"
    /\ Settled => call.released = call.acquired
    /\ (Settled /\ ~call.connectFailed /\ call.log # <<>>) => call.released = 1
    /\ call.pc \in {"query", "BEGIN", "INSERT", "COMMIT", "ROLLBACK"} =>
          (call.acquired = 1 /\ call.released = 0)
    /\ call.connectFailed => (call.acquired = 0 /\ call.released = 0)

\* C17 witness: a bulkCreate whose INSERT and whose ROLLBACK both failed has
\* settled with its client released
C17_Witness ==
    /\ Settled
    /\ call.op = "bulkCreate"
    /\ Len(call.raised) = 2
    /\ call.acquired = 1
    /\ call.released = 1

\* log is what bulkCreate issues when its n-th statement (of BEGIN, INSERT,
\* COMMIT) is the first to fail: the statements up to it, then ROLLBACK
FailedRun(log, rows, n) ==
    log = SubSeq(<<Issued("BEGIN", 0), Issued("INSERT", rows), Issued("COMMIT", 0)>>, 1, n)
          \o <<Issued("ROLLBACK", 0)>>

\* C18: bulkCreate issues BEGIN, one multi-row INSERT and COMMIT, in that
\* order, on one client; if BEGIN, the INSERT or COMMIT fails it issues
\* ROLLBACK and no COMMIT after the failure, and rejects with the error that
\* caused the failure; with an empty array it throws before acquiring a
\* client or issuing a statement.
C18_BulkCreateTransaction ==
    (Settled /\ call.op = "bulkCreate") =>
        /\ call.rows = 0 =>
              /\ call.outcome = Rejected("No data provided for bulk create operation")
              /\ call.acquired = 0
              /\ call.log = <<>>
        /\ (call.rows > 0 /\ ~call.connectFailed /\ call.raised = <<>>) =>
              /\ call.log = <<Issued("BEGIN", 0), Issued("INSERT", call.rows),
                              Issued("COMMIT", 0)>>
              /\ call.outcome = Resolved
        /\ call.raised # <<>> =>
              /\ \E n \in 1..3 : FailedRun(call.log, call.rows, n)
              /\ call.outcome = Rejected(call.raised[1])

\* call i has sent a request to the store
SentRequest(i) == \E n \in 1..Len(requests) : requests[n].call = i

\* call i of uploadFile is one the validation must reject, given the limits
\* it read
MustReject(i) ==
    \/ uploads[i].params.bucketName = ""
    \/ uploads[i].params.file.size > uploads[i].limit
    \/ /\ uploads[i].allowed # <<>>
       /\ uploads[i].params.file.type
              \notin {uploads[i].allowed[n] : n \in 1..Len(uploads[i].allowed)}

\* the calls of uploadFile
UploadFileCalls == {i \in 1..Len(uploads) : uploads[i].method = "uploadFile"}

\* every uploadFile call the validation must reject was rejected at once,
\* with an error of the validation, and has sent no request
InvalidCallsRejected ==
    \A i \in UploadFileCalls :
        MustReject(i) =>
            /\ uploads[i].pc = "settled"
            /\ uploads[i].outcome \in {Threw("bucketName cannot be empty"),
                                       Threw("File size exceeds the limit"),
                                       Threw("Invalid file type")}
            /\ ~SentRequest(i)

\* a step in which uploadFile is called and rejected by the validation sends
\* no request and leaves the file cache as it was
RejectionTouchesNothing ==
    (/\ Len(uploads') = Len(uploads) + 1
     /\ uploads'[Len(uploads')].method = "uploadFile"
     /\ uploads'[Len(uploads')].pc = "settled")
        => (requests' = requests /\ fileCache' = fileCache)

\* the limits that `a` (the limits asked for so far) puts in force when
\* every limit asked for counts
LastAsked(a) ==
    [maxFileSize |-> IF a.maxFileSize = None THEN DefaultMaxFileSize
                     ELSE a.maxFileSize[1].value,
     allowedFileTypes |-> IF a.allowedFileTypes = None THEN <<>>
                          ELSE a.allowedFileTypes[1].value]

\* the same, when a maxFileSize of 0 in the constructor config counts as not
\* given
LastAskedButZeroConfig(a) ==
    [LastAsked(a) EXCEPT
        !.maxFileSize = IF /\ a.maxFileSize # None
                           /\ a.maxFileSize[1] = [by |-> "constructor", value |-> 0]
                        THEN DefaultMaxFileSize ELSE @]

\* C19: uploadFile rejects an empty bucketName, a file larger than
\* maxFileSize and, when allowedFileTypes is non-empty, a type not in it; a
\* rejected call sends no request and leaves the cache unchanged; the limits
\* in force are those last set by the constructor config or by
\* setMaxFileSize / setAllowedFileTypes.
C19_ValidationRejects ==
    /\ [](/\ InvalidCallsRejected
          /\ maxFileSize = LastAsked(asked).maxFileSize
          /\ allowedFileTypes = LastAsked(asked).allowedFileTypes
          /\ \A i \in UploadFileCalls :
                /\ uploads[i].limit = LastAsked(uploads[i].asked).maxFileSize
                /\ uploads[i].allowed = LastAsked(uploads[i].asked).allowedFileTypes)
    /\ [][RejectionTouchesNothing]_vars

\* What does hold: the same, where a maxFileSize of 0 in the constructor
\* config counts as not given and leaves the 5 MB default in force
\* (setMaxFileSize(0) does set the limit 0).
ValidationRejectsButZeroConfig ==
    /\ [](/\ InvalidCallsRejected
          /\ maxFileSize = LastAskedButZeroConfig(asked).maxFileSize
          /\ allowedFileTypes = LastAskedButZeroConfig(asked).allowedFileTypes
          /\ \A i \in UploadFileCalls :
                /\ uploads[i].limit = LastAskedButZeroConfig(uploads[i].asked).maxFileSize
                /\ uploads[i].allowed
                      = LastAskedButZeroConfig(uploads[i].asked).allowedFileTypes)
    /\ [][RejectionTouchesNothing]_vars

\* C20: after an uploadFile call for content c has resolved with URL u,
\* every later call on the same instance with content c that passes
\* validation resolves with u and sends no request, whatever its bucket and
\* key parts; a cache entry is written only after the store answered with
\* status 200, so a failed upload leaves no entry.
C20_CachedUrlIsReturned ==
    /\ \A j \in UploadFileCalls : \A i \in uploads[j].after \cap UploadFileCalls :
          (/\ uploads[i].params.file.content = uploads[j].params.file.content
           /\ ~MustReject(j)
           /\ uploads[j].pc \notin {"hash", "buffer"})
              => /\ uploads[j].outcome = uploads[i].outcome
                 /\ ~SentRequest(j)
    /\ \A e \in fileCache :
          \E n \in 1..Len(requests) :
              /\ requests[n].command = "PutObject"
              /\ requests[n].call \in UploadFileCalls
              /\ requests[n].status = 200
              /\ e.url = BaseRemoteUrl \o "/" \o requests[n].key
              /\ e.hash = calculateFileHash(uploads[requests[n].call].params.file)

====
